---- MODULE Spec2Model ----
(***************************************************************************)
(* Blood-donor directory: the Persistence Gateway (DatabaseService, local  *)
(* blob store or remote tables) and the App controller built on it.        *)
(*                                                                         *)
(* A JavaScript object is a function from its present keys to values: a    *)
(* key whose value is undefined or null is absent.  A remote row is a      *)
(* function from its non-NULL columns to values.                           *)
(***************************************************************************)
EXTENDS Integers, Sequences, FiniteSets, TLC

VARIABLES
    localPeople,    \* localStorage['bloodline_donors_v2'], parsed
    localGroups,    \* localStorage['bloodline_groups_v1'], parsed
    corrupt,        \* the local blobs that hold malformed JSON
    remotePeople,   \* rows of the remote table people
    remoteGroups,   \* rows of the remote table groups
    cloudConfig,    \* App state: cloudConfig
    savedConfig,    \* localStorage['bloodline_cloud_config']
    people,         \* App state: people
    groups,         \* App state: groups
    loading,        \* App state: loading
    mounted,        \* the mount effect has run
    nextId,         \* how many identifiers crypto.randomUUID() has handed out
    tasks,          \* async calls suspended at an await
    done,           \* the call that completed in the last step
    overlap,        \* whether a call may start while another is suspended
    now,            \* the clock: what Date.now() reads
    view,           \* App state: searchQuery, filterGroup, filterGroupId, sortBy
    rendered        \* what the render of the last step computed, if it was one

vars == <<localPeople, localGroups, corrupt, remotePeople, remoteGroups,
          cloudConfig, savedConfig, people, groups, loading, mounted,
          nextId, tasks, done, overlap, now, view, rendered>>

stores == <<localPeople, localGroups, corrupt, remotePeople, remoteGroups>>

---------------------------------------------------------------------------
(* Bounds *)

MaxDonors == 2      \* donor identifiers 1..MaxDonors
MaxGroups == 1      \* group identifiers 1..MaxGroups
MaxLen == MaxGroups + 1   \* longest local group blob (saveGroup appends)
MaxTime == 1        \* Date.now() reads 1..MaxTime
MaxTasks == 2       \* calls suspended at a time, where calls may overlap
TicksPerDay == 2    \* clock units in a day, where the days of recovery are
                    \* counted: the code's clock unit is the millisecond, of
                    \* which a day has 1000 * 60 * 60 * 24

DonorIds == 1..MaxDonors
GroupIds == 1..MaxGroups

---------------------------------------------------------------------------
(* Sequences and objects *)

RECURSIVE SelectIdx(_, _, _)
SelectIdx(s, Test(_), i) ==
    IF i > Len(s) THEN 0
    ELSE IF Test(s[i]) THEN i ELSE SelectIdx(s, Test, i + 1)

\* Array.prototype.findIndex, 1-based; 0 when nothing matches
FindIndex(s, Test(_)) == SelectIdx(s, Test, 1)

Filter(s, Test(_)) == SelectSeq(s, Test)

Range(s) == {s[i] : i \in DOMAIN s}

Has(obj, k) == k \in DOMAIN obj

With(obj, k, v) == (k :> v) @@ obj

\* Array.prototype.includes on an optional array: (p.groupIds || []).includes(g)
InGroup(p, g) == Has(p, "groupIds") /\ g \in Range(p.groupIds)

---------------------------------------------------------------------------
(* types.ts *)

NumColors == 6

---------------------------------------------------------------------------
(* App.tsx: the eligibility of a donor                                     *)
(*                                                                         *)
(* daysSince is the fraction diff / TicksPerDay; it is compared and        *)
(* rounded as that fraction.                                               *)

RECOVERY_DAYS == 56

\* Math.ceil(n / d), d > 0
Ceil(n, d) == -((-n) \div d)

\* !person.lastDonationDate: undefined, null or 0
NoDonationDate(person) ==
    ~Has(person, "lastDonationDate") \/ person.lastDonationDate = 0

IsEligibleStrict(person, t) ==
    IF NoDonationDate(person) THEN TRUE
    ELSE LET diff == t - person.lastDonationDate
         IN diff > RECOVERY_DAYS * TicksPerDay

\* isEligible(person), Date.now() reading t
IsEligible(person, t) ==
    IF NoDonationDate(person) THEN TRUE
    ELSE LET diff == t - person.lastDonationDate
         IN diff >= RECOVERY_DAYS * TicksPerDay

\* what getRecoveryInfo returns: null, or a number of days
Null == [null |-> TRUE]

Days(n) == [days |-> n]

GetRecoveryInfoZero(person, t) ==
    IF NoDonationDate(person) THEN Days(0)
    ELSE LET diff == t - person.lastDonationDate
         IN IF diff < RECOVERY_DAYS * TicksPerDay
            THEN Days(Ceil(RECOVERY_DAYS * TicksPerDay - diff, TicksPerDay))
            ELSE Null

GetRecoveryInfoFloor(person, t) ==
    IF NoDonationDate(person) THEN Null
    ELSE LET diff == t - person.lastDonationDate
         IN IF diff < RECOVERY_DAYS * TicksPerDay
            THEN Days((RECOVERY_DAYS * TicksPerDay - diff) \div TicksPerDay)
            ELSE Null

GetRecoveryInfoInclusive(person, t) ==
    IF NoDonationDate(person) THEN Null
    ELSE LET diff == t - person.lastDonationDate
         IN IF diff <= RECOVERY_DAYS * TicksPerDay
            THEN Days(Ceil(RECOVERY_DAYS * TicksPerDay - diff, TicksPerDay))
            ELSE Null

\* getRecoveryInfo(person), Date.now() reading t
GetRecoveryInfo(person, t) ==
    IF NoDonationDate(person) THEN Null
    ELSE LET diff == t - person.lastDonationDate
         IN IF diff < RECOVERY_DAYS * TicksPerDay
            THEN Days(Ceil(RECOVERY_DAYS * TicksPerDay - diff, TicksPerDay))
            ELSE Null

---------------------------------------------------------------------------
(* constants.tsx *)

BLOOD_GROUPS == <<"A+", "A-", "B+", "B-", "AB+", "AB-", "O+", "O-">>

CompatibilityMapOneWay ==
    [bg \in Range(BLOOD_GROUPS) |->
        CASE bg = "A+" -> [canDonateTo |-> <<"A+", "AB+">>,
                           canReceiveFrom |-> <<"A+", "A-", "O+", "O-">>]
          [] bg = "A-" -> [canDonateTo |-> <<"A+", "A-", "AB+", "AB-">>,
                           canReceiveFrom |-> <<"A-", "O-">>]
          [] bg = "B+" -> [canDonateTo |-> <<"B+", "AB+">>,
                           canReceiveFrom |-> <<"B+", "B-", "O+", "O-">>]
          [] bg = "B-" -> [canDonateTo |-> <<"B+", "B-", "AB+", "AB-">>,
                           canReceiveFrom |-> <<"B-", "O-">>]
          [] bg = "AB+" -> [canDonateTo |-> <<"AB+">>,
                            canReceiveFrom |-> <<"A+", "A-", "B+", "B-", "AB+",
                                                 "AB-", "O+", "O-">>]
          [] bg = "AB-" -> [canDonateTo |-> <<"AB+", "AB-">>,
                            canReceiveFrom |-> <<"A-", "B-", "AB-", "O-">>]
          [] bg = "O+" -> [canDonateTo |-> <<"O+", "A+", "B+", "AB+">>,
                           canReceiveFrom |-> <<"O+", "O-">>]
          [] bg = "O-" -> [canDonateTo |-> <<"A+", "A-", "B+", "B-", "AB+",
                                             "AB-", "O+">>,
                           canReceiveFrom |-> <<"O-">>]]

COMPATIBILITY_MAP ==
    [bg \in Range(BLOOD_GROUPS) |->
        CASE bg = "A+" -> [canDonateTo |-> <<"A+", "AB+">>,
                           canReceiveFrom |-> <<"A+", "A-", "O+", "O-">>]
          [] bg = "A-" -> [canDonateTo |-> <<"A+", "A-", "AB+", "AB-">>,
                           canReceiveFrom |-> <<"A-", "O-">>]
          [] bg = "B+" -> [canDonateTo |-> <<"B+", "AB+">>,
                           canReceiveFrom |-> <<"B+", "B-", "O+", "O-">>]
          [] bg = "B-" -> [canDonateTo |-> <<"B+", "B-", "AB+", "AB-">>,
                           canReceiveFrom |-> <<"B-", "O-">>]
          [] bg = "AB+" -> [canDonateTo |-> <<"AB+">>,
                            canReceiveFrom |-> <<"A+", "A-", "B+", "B-", "AB+",
                                                 "AB-", "O+", "O-">>]
          [] bg = "AB-" -> [canDonateTo |-> <<"AB+", "AB-">>,
                            canReceiveFrom |-> <<"A-", "B-", "AB-", "O-">>]
          [] bg = "O+" -> [canDonateTo |-> <<"O+", "A+", "B+", "AB+">>,
                           canReceiveFrom |-> <<"O+", "O-">>]
          [] bg = "O-" -> [canDonateTo |-> <<"A+", "A-", "B+", "B-", "AB+",
                                             "AB-", "O+", "O-">>,
                           canReceiveFrom |-> <<"O-">>]]

\* Array.prototype.indexOf, 0-based; -1 when the value is not in the array
IndexOf(s, x) ==
    IF x \in Range(s)
    THEN (CHOOSE i \in DOMAIN s : s[i] = x /\ \A j \in 1..(i - 1) : s[j] # x) - 1
    ELSE -1

---------------------------------------------------------------------------
(* Strings.  A string value is taken apart into its characters through    *)
(* Chars, which lists the strings that the donors and the search box of   *)
(* this model hold.                                                        *)

Chars(str) ==
    CASE str = "" -> <<>>
      [] str = "Alice" -> <<"A", "l", "i", "c", "e">>
      [] str = "Bob" -> <<"B", "o", "b">>
      [] str = "Al" -> <<"A", "l">>
      [] str = "ali" -> <<"a", "l", "i">>
      [] str = "A" -> <<"A">>
      [] str = "+" -> <<"+">>
      [] str = "555" -> <<"5", "5", "5">>
      [] str = "5A" -> <<"5", "A">>
      [] str = "A+" -> <<"A", "+">>
      [] str = "A-" -> <<"A", "-">>
      [] str = "B+" -> <<"B", "+">>
      [] str = "B-" -> <<"B", "-">>
      [] str = "AB+" -> <<"A", "B", "+">>
      [] str = "AB-" -> <<"A", "B", "-">>
      [] str = "O+" -> <<"O", "+">>
      [] str = "O-" -> <<"O", "-">>

UpperLetters == <<"A", "B", "C", "D", "E", "F", "G", "H", "I", "J", "K", "L", "M",
                  "N", "O", "P", "Q", "R", "S", "T", "U", "V", "W", "X", "Y", "Z">>

LowerLetters == <<"a", "b", "c", "d", "e", "f", "g", "h", "i", "j", "k", "l", "m",
                  "n", "o", "p", "q", "r", "s", "t", "u", "v", "w", "x", "y", "z">>

IsUpper(c) == c \in Range(UpperLetters)

\* String.prototype.toLowerCase, on the characters
ToLowerCase(cs) ==
    [i \in DOMAIN cs |-> IF IsUpper(cs[i])
                         THEN LowerLetters[IndexOf(UpperLetters, cs[i]) + 1]
                         ELSE cs[i]]

\* String.prototype.includes, on the characters
Includes(cs, q) ==
    \E i \in 0..(Len(cs) - Len(q)) : SubSeq(cs, i + 1, i + Len(q)) = q

Sign(n) == IF n < 0 THEN -1 ELSE IF n > 0 THEN 1 ELSE 0

\* String.prototype.localeCompare on names made of letters: by the letters
\* whatever their case, a prefix first; names that differ in case only, by
\* the first such letter, the lower-case one first
LocaleCompare(a, b) ==
    LET x == Chars(a)
        y == Chars(b)
        lx == ToLowerCase(x)
        ly == ToLowerCase(y)
        n == IF Len(x) < Len(y) THEN Len(x) ELSE Len(y)
        first(u, v) == CHOOSE i \in 1..n : u[i] # v[i] /\ \A j \in 1..(i - 1) : u[j] = v[j]
    IN IF \E i \in 1..n : lx[i] # ly[i]
       THEN LET i == first(lx, ly)
            IN Sign(IndexOf(LowerLetters, lx[i]) - IndexOf(LowerLetters, ly[i]))
       ELSE IF Len(x) # Len(y) THEN Sign(Len(x) - Len(y))
       ELSE IF x = y THEN 0
       ELSE IF IsUpper(x[first(x, y)]) THEN 1 ELSE -1

---------------------------------------------------------------------------
(* App.tsx: filteredAndSortedPeople *)

\* the value 'All' of filterGroupId, which is otherwise a group identifier
AllGroups == 0

MatchesSearch(p, searchQuery) ==
    LET q == ToLowerCase(Chars(searchQuery))
    IN \/ Includes(ToLowerCase(Chars(p.name)), q)
       \/ Includes(Chars(p.phoneNumber), q)
       \/ Includes(ToLowerCase(Chars(p.bloodGroup)), q)

MatchesBloodFilter(p, filterGroup) == filterGroup = "All" \/ p.bloodGroup = filterGroup

MatchesGroupFilter(p, filterGroupId) ==
    filterGroupId = AllGroups \/ InGroup(p, filterGroupId)

MatchesAny(p, v) ==
    \/ MatchesSearch(p, v.searchQuery)
    \/ MatchesBloodFilter(p, v.filterGroup)
    \/ MatchesGroupFilter(p, v.filterGroupId)

\* the callback of people.filter
Matches(p, v) ==
    /\ MatchesSearch(p, v.searchQuery)
    /\ MatchesBloodFilter(p, v.filterGroup)
    /\ MatchesGroupFilter(p, v.filterGroupId)

CompareByName(sortBy, t, a, b) == LocaleCompare(a.name, b.name)

\* the callback of result.sort, Date.now() reading t
Compare(sortBy, t, a, b) ==
    CASE sortBy = "name-asc" -> LocaleCompare(a.name, b.name)
      [] sortBy = "name-desc" -> LocaleCompare(b.name, a.name)
      [] sortBy = "blood-group" ->
            IndexOf(BLOOD_GROUPS, a.bloodGroup) - IndexOf(BLOOD_GROUPS, b.bloodGroup)
      [] sortBy = "status" ->
            LET aE == IsEligible(a, t)
                bE == IsEligible(b, t)
            IN IF aE = bE THEN LocaleCompare(a.name, b.name)
               ELSE IF aE THEN -1 ELSE 1
      [] OTHER -> 0

\* Array.prototype.sort is stable: an element goes after those of the sorted
\* ones that the callback does not put after it
RECURSIVE Sort(_, _, _)
Sort(s, sortBy, t) ==
    IF s = <<>> THEN <<>>
    ELSE LET n == Len(s)
             sorted == Sort(SubSeq(s, 1, n - 1), sortBy, t)
             x == s[n]
             k == Cardinality({i \in DOMAIN sorted :
                                  Compare(sortBy, t, sorted[i], x) <= 0})
         IN SubSeq(sorted, 1, k) \o <<x>> \o SubSeq(sorted, k + 1, Len(sorted))

\* filteredAndSortedPeople, Date.now() reading t throughout
Query(ps, v, t) == Sort(Filter(ps, LAMBDA p : Matches(p, v)), v.sortBy, t)

---------------------------------------------------------------------------
(* DatabaseService: translation between the application model and the rows *)

PeopleColumns == {"id", "name", "phone_number", "blood_group",
                  "last_donation_date", "notes", "group_ids", "location"}

\* the attribute savePerson reads for each column of its payload
AttrOf(c) ==
    CASE c = "id" -> "id"
      [] c = "name" -> "name"
      [] c = "phone_number" -> "phoneNumber"
      [] c = "blood_group" -> "bloodGroup"
      [] c = "last_donation_date" -> "lastDonationDate"
      [] c = "notes" -> "notes"
      [] c = "group_ids" -> "groupIds"
      [] c = "location" -> "location"

\* savePerson's payload: an undefined attribute leaves its column out
PersonPayload(person) ==
    [c \in {c \in PeopleColumns : Has(person, AttrOf(c))} |-> person[AttrOf(c)]]

\* fetchPeople's map over the rows
PersonFromRow(p) ==
    LET keys == {"groupIds"}
                \cup (IF Has(p, "id") THEN {"id"} ELSE {})
                \cup (IF Has(p, "name") THEN {"name"} ELSE {})
                \cup (IF Has(p, "phone_number") THEN {"phoneNumber"} ELSE {})
                \cup (IF Has(p, "blood_group") THEN {"bloodGroup"} ELSE {})
                \cup (IF Has(p, "last_donation_date") /\ p.last_donation_date # 0
                      THEN {"lastDonationDate"} ELSE {})
                \cup (IF Has(p, "notes") THEN {"notes"} ELSE {})
                \cup (IF Has(p, "location") THEN {"location"} ELSE {})
    IN [k \in keys |->
          CASE k = "id" -> p.id
            [] k = "name" -> p.name
            [] k = "phoneNumber" -> p.phone_number
            [] k = "bloodGroup" -> p.blood_group
            [] k = "lastDonationDate" -> p.last_donation_date
            [] k = "notes" -> p.notes
            [] k = "groupIds" -> IF Has(p, "group_ids") THEN p.group_ids ELSE <<>>
            [] k = "location" -> p.location]

PeopleFromRows(data) == [i \in DOMAIN data |-> PersonFromRow(data[i])]

\* saveGroup's payload
GroupPayload(group) == [id |-> group.id, name |-> group.name, color |-> group.color]

\* fetchGroups's map over the rows
GroupFromRow(g) == [id |-> g.id, name |-> g.name, color |-> g.color]

GroupsFromRows(data) == [i \in DOMAIN data |-> GroupFromRow(data[i])]

---------------------------------------------------------------------------
(* The remote tables: upsert and delete keyed on id.  A request that the    *)
(* remote answers with an error has changed nothing; a row keeps its place *)
(* when it is replaced.                                                    *)

TableUpsert(rows, payload) ==
    LET at == FindIndex(rows, LAMBDA r : r.id = payload.id)
    IN IF at > 0 THEN [rows EXCEPT ![at] = payload] ELSE Append(rows, payload)

TableDelete(rows, id) == Filter(rows, LAMBDA r : r.id # id)

---------------------------------------------------------------------------
(* DatabaseService: the local branches, on the parsed blob *)

LocalSavePersonPush(blob, person) == Append(blob, person)

\* savePerson: findIndex, then replace in place or push
LocalSavePerson(blob, person) ==
    LET exists == FindIndex(blob, LAMBDA p : p.id = person.id)
    IN IF exists > 0 THEN [blob EXCEPT ![exists] = person] ELSE Append(blob, person)

\* deletePerson: people.filter(p => p.id !== id)
LocalDeletePerson(blob, id) == Filter(blob, LAMBDA p : p.id # id)

\* saveGroup: groups.push(group)
LocalSaveGroup(blob, group) == Append(blob, group)

\* deleteGroup: groups.filter(g => g.id !== id)
LocalDeleteGroup(blob, id) == Filter(blob, LAMBDA g : g.id # id)

\* local ? JSON.parse(local) : [] -- JSON.parse throws on malformed JSON
LocalRead(blob, malformed) ==
    IF malformed THEN [out |-> "throw"] ELSE [out |-> "return", data |-> blob]

---------------------------------------------------------------------------
(* DatabaseService: what each remote branch makes of the client's answer   *)
(* {data, error}                                                           *)

FetchPeopleRemoteSwallow(error, data) ==
    [out |-> "return", data |-> IF error THEN <<>> ELSE PeopleFromRows(data)]

FetchPeopleRemote(error, data) ==
    IF error THEN [out |-> "throw"]
    ELSE [out |-> "return", data |-> PeopleFromRows(data)]

FetchGroupsRemote(error, data) ==
    IF error THEN [out |-> "throw"]
    ELSE [out |-> "return", data |-> GroupsFromRows(data)]

SavePersonRemote(error) == IF error THEN "throw" ELSE "return"

DeletePersonRemote(error) == IF error THEN "throw" ELSE "return"

SaveGroupRemote(error) == IF error THEN "throw" ELSE "return"

DeleteGroupRemote(error) == IF error THEN "throw" ELSE "return"

---------------------------------------------------------------------------
(* Calls in progress.  A call of an async method runs to its first await   *)
(* when it is made; the rest runs when the awaited answer arrives.         *)

None == [h |-> "none"]

\* no render took place in the last step
NotRendered == [h |-> "none"]

\* the stores, as one value
Cur == [lp |-> localPeople, lg |-> localGroups, cr |-> corrupt,
        rp |-> remotePeople, rg |-> remoteGroups]

\* what fetchPeople() returns from a store when nothing fails
StoredPeople(remote, st) == IF remote THEN PeopleFromRows(st.rp) ELSE st.lp

StoredGroups(remote, st) == IF remote THEN GroupsFromRows(st.rg) ELSE st.lg

Now(res) == [kind |-> "now", res |-> res @@ [err |-> FALSE]]

Wait(task) == [kind |-> "wait", task |-> task]

\* syncToCloud's saves in the order of its two loops
SyncItems(ps, gs) ==
    [k \in 1..(Len(gs) + Len(ps)) |->
        IF k <= Len(gs) THEN [kind |-> "group", group |-> gs[k]]
        ELSE [kind |-> "person", person |-> ps[k - Len(gs)]]]

SyncNextAll(n, saved, inflight) ==
    IF saved = {} /\ inflight = {} THEN 1..n ELSE {}

\* the saves syncToCloud starts now: `for (...) await save(...)` starts the
\* next one only when the one before has returned
SyncNext(n, saved, inflight) ==
    IF inflight = {} /\ Cardinality(saved) < n THEN {Cardinality(saved) + 1} ELSE {}

\* Promise.all([db.fetchPeople(), db.fetchGroups()]) on the local store
LocalFetchAll(st) ==
    LET p == LocalRead(st.lp, "people" \in st.cr)
        g == LocalRead(st.lg, "groups" \in st.cr)
    IN IF p.out = "throw" \/ g.out = "throw" THEN [out |-> "throw"]
       ELSE [out |-> "return", people |-> p.data, groups |-> g.data]

\* the local read-modify-write methods read the blob before their first await
LocalRmw(req, blob, malformed) ==
    LET r == LocalRead(blob, malformed)
    IN IF r.out = "throw" THEN Now([out |-> "throw"])
       ELSE Wait(req @@ [read |-> r.data])

\* a method of DatabaseService up to its first await
Begin(req, st) ==
    CASE req.op = "fetchPeople" ->
            IF req.remote THEN Wait(req)
            ELSE Now(LocalRead(st.lp, "people" \in st.cr))
      [] req.op = "fetchGroups" ->
            IF req.remote THEN Wait(req)
            ELSE Now(LocalRead(st.lg, "groups" \in st.cr))
      [] req.op = "fetchAll" ->
            IF req.remote THEN Wait(req) ELSE Now(LocalFetchAll(st))
      [] req.op \in {"savePerson", "deletePerson"} ->
            IF req.remote THEN Wait(req)
            ELSE LocalRmw(req, st.lp, "people" \in st.cr)
      [] req.op \in {"saveGroup", "deleteGroup"} ->
            IF req.remote THEN Wait(req)
            ELSE LocalRmw(req, st.lg, "groups" \in st.cr)
      [] req.op = "syncToCloud" ->
            LET items == SyncItems(req.people, req.groups)
            IN IF ~req.remote \/ Len(items) = 0 THEN Now([out |-> "return"])
               ELSE Wait(req @@ [items |-> items, saved |-> {},
                                 inflight |-> SyncNext(Len(items), {}, {})])

\* the answer of the remote to a request, and the stores after it
RemoteAnswer(t, error, error2, st) ==
    CASE t.op = "fetchPeople" ->
            [res |-> FetchPeopleRemote(error, st.rp), st |-> st]
      [] t.op = "fetchGroups" ->
            [res |-> FetchGroupsRemote(error, st.rg), st |-> st]
      [] t.op = "fetchAll" ->
            LET p == FetchPeopleRemote(error, st.rp)
                g == FetchGroupsRemote(error2, st.rg)
            IN [res |-> IF p.out = "throw" \/ g.out = "throw" THEN [out |-> "throw"]
                        ELSE [out |-> "return", people |-> p.data, groups |-> g.data],
                st |-> st]
      [] t.op = "savePerson" ->
            [res |-> [out |-> SavePersonRemote(error)],
             st |-> IF error THEN st
                    ELSE [st EXCEPT !.rp = TableUpsert(@, PersonPayload(t.person))]]
      [] t.op = "deletePerson" ->
            [res |-> [out |-> DeletePersonRemote(error)],
             st |-> IF error THEN st ELSE [st EXCEPT !.rp = TableDelete(@, t.id)]]
      [] t.op = "saveGroup" ->
            [res |-> [out |-> SaveGroupRemote(error)],
             st |-> IF error THEN st
                    ELSE [st EXCEPT !.rg = TableUpsert(@, GroupPayload(t.group))]]
      [] t.op = "deleteGroup" ->
            [res |-> [out |-> DeleteGroupRemote(error)],
             st |-> IF error THEN st ELSE [st EXCEPT !.rg = TableDelete(@, t.id)]]

LocalWrittenFresh(t, st) ==
    CASE t.op = "savePerson" ->
            [st EXCEPT !.lp = LocalSavePerson(st.lp, t.person), !.cr = @ \ {"people"}]
      [] t.op = "deletePerson" ->
            [st EXCEPT !.lp = LocalDeletePerson(st.lp, t.id), !.cr = @ \ {"people"}]
      [] t.op = "saveGroup" ->
            [st EXCEPT !.lg = LocalSaveGroup(st.lg, t.group), !.cr = @ \ {"groups"}]
      [] t.op = "deleteGroup" ->
            [st EXCEPT !.lg = LocalDeleteGroup(st.lg, t.id), !.cr = @ \ {"groups"}]

\* the rest of a local read-modify-write method: the blob it writes
LocalWritten(t, st) ==
    CASE t.op = "savePerson" ->
            [st EXCEPT !.lp = LocalSavePerson(t.read, t.person), !.cr = @ \ {"people"}]
      [] t.op = "deletePerson" ->
            [st EXCEPT !.lp = LocalDeletePerson(t.read, t.id), !.cr = @ \ {"people"}]
      [] t.op = "saveGroup" ->
            [st EXCEPT !.lg = LocalSaveGroup(t.read, t.group), !.cr = @ \ {"groups"}]
      [] t.op = "deleteGroup" ->
            [st EXCEPT !.lg = LocalDeleteGroup(t.read, t.id), !.cr = @ \ {"groups"}]

Remove(s, i) == [j \in 1..(Len(s) - 1) |-> IF j < i THEN s[j] ELSE s[j + 1]]

\* a suspended local method runs on before any event or answer is handled
LocalPending == \E i \in DOMAIN tasks : ~tasks[i].remote

---------------------------------------------------------------------------
(* App.tsx: the controller.  A handler is suspended with its closure:      *)
(* cont.remote is the db of the render that created it, cont.active that   *)
(* render's cloudConfig.active.                                            *)

AppNow == [people |-> people, groups |-> groups, loading |-> loading]

\* new DatabaseService(config): the remote store iff active, url and key
Remote(config) ==
    config.active /\ config.supabaseUrl # "" /\ config.supabaseKey # ""

MsgFetch == "Cloud connection failed. Verify your Supabase credentials."
MsgSave == "Save failed. Check network or database permissions."
MsgDelete == "Failed to delete from database. Please try again."
MsgMark == "Failed to update status in the database."
MsgSaveGroup == "Error saving group."
MsgDeleteGroup == "Error deleting group."
MsgSyncOk == "Synchronization successful!"
MsgSyncFail == "Synchronization failed. Check credentials and network."

MsgSaveNoGroups == "Save failed. Please check your connection."

FailureMsgs == {MsgFetch, MsgSave, MsgDelete, MsgMark, MsgSaveGroup,
                MsgDeleteGroup, MsgSyncFail}

\* whether the in-memory collections are what the store of config holds
InSync(config) ==
    /\ "people" \notin corrupt /\ "groups" \notin corrupt
    /\ people = StoredPeople(Remote(config), Cur)
    /\ groups = StoredGroups(Remote(config), Cur)

\* synced: whether the collections were in sync when the handler was called
ContOf(h, config) ==
    [h |-> h, remote |-> Remote(config), active |-> config.active,
     showLoading |-> FALSE, alerts |-> <<>>, failed |-> FALSE, threw |-> FALSE,
     refetched |-> "no", synced |-> InSync(config)]

Cont(h) == ContOf(h, cloudConfig)

Alert(cont, msg) == [cont EXCEPT !.alerts = Append(@, msg)]

Final(base, cont, A) == [app |-> A, tasks |-> base, done |-> cont]

Suspend(base, task, cont, A) ==
    [app |-> A, tasks |-> Append(base, task @@ [cont |-> cont]), done |-> None]

\* refreshData after its await: try { setPeople; setGroups } catch { alert? }
\* finally { setLoading(false) }
AfterRefresh(base, cont, res, A) ==
    LET c == [cont EXCEPT !.failed = @ \/ res.err, !.refetched = res.out]
        A1 == IF res.out = "return"
              THEN [A EXCEPT !.people = res.people, !.groups = res.groups]
              ELSE A
        c1 == IF res.out = "throw" /\ c.active /\ c.showLoading
              THEN Alert(c, MsgFetch) ELSE c
        A2 == IF c.showLoading THEN [A1 EXCEPT !.loading = FALSE] ELSE A1
    IN Final(base, c1, A2)

\* refreshData(showLoading) up to its await
DoRefresh(base, cont, showLoading, st, A) ==
    LET c == [cont EXCEPT !.showLoading = showLoading]
        A1 == IF showLoading THEN [A EXCEPT !.loading = TRUE] ELSE A
        b == Begin([op |-> "fetchAll", remote |-> c.remote], st)
    IN IF b.kind = "now" THEN AfterRefresh(base, c, b.res, A1)
       ELSE Suspend(base, b.task, c, A1)

DeleteRollbackNone(cont, A) == A

\* handleDeletePerson's catch: setPeople(originalPeople)
DeleteRollback(cont, A) == [A EXCEPT !.people = cont.originalPeople]

AfterSyncQuiet(base, c, res, st, A) ==
    IF res.out = "return"
    THEN DoRefresh(base, Alert(c, MsgSyncOk), TRUE, st, A)
    ELSE Final(base, c, [A EXCEPT !.loading = FALSE])

\* handleSyncLocalToCloud after await db.syncToCloud(...): alert and refresh,
\* or catch { alert }, and finally { setLoading(false) }
AfterSync(base, c, res, st, A) ==
    IF res.out = "return"
    THEN DoRefresh(base, Alert(c, MsgSyncOk), TRUE, st, A)
    ELSE Final(base, Alert(c, MsgSyncFail), [A EXCEPT !.loading = FALSE])

\* what a handler does when the gateway method it awaits returns or throws
AfterCall(base, cont, res, pre, st, A) ==
    LET c == [cont EXCEPT !.failed = @ \/ res.err, !.threw = (res.out = "throw")]
    IN CASE c.h = "db" ->
              Final(base, c @@ [res |-> res, pre |-> pre], A)
         [] c.h = "save" ->
              IF res.out = "return" THEN DoRefresh(base, c, FALSE, st, A)
              ELSE Final(base, Alert(c, MsgSave), A)
         [] c.h = "delete" ->
              IF res.out = "return" THEN DoRefresh(base, c, FALSE, st, A)
              ELSE Final(base, Alert(c, MsgDelete), DeleteRollback(c, A))
         [] c.h = "mark" ->
              IF res.out = "return" THEN Final(base, c, A)
              ELSE DoRefresh(base, Alert(c, MsgMark), FALSE, st, A)
         [] c.h = "saveGroup" ->
              IF res.out = "return" THEN DoRefresh(base, c, FALSE, st, A)
              ELSE Final(base, Alert(c, MsgSaveGroup), A)
         [] c.h = "deleteGroup" ->
              IF res.out = "return" THEN DoRefresh(base, c, FALSE, st, A)
              ELSE Final(base, Alert(c, MsgDeleteGroup), A)
         [] c.h = "sync" -> AfterSync(base, c, res, st, A)
         [] c.h = "saveNoGroups" ->
              IF res.out = "return" THEN DoRefresh(base, c, FALSE, st, A)
              ELSE Final(base, Alert(c, MsgSaveNoGroups), A)

\* a suspended call resumes with the answer to what it awaited
\* (of syncToCloud, its saves and those that returned are kept for the
\* properties)
Resume(base, t, res, pre, st, A) ==
    IF t.op = "fetchAll" THEN AfterRefresh(base, t.cont, res, A)
    ELSE IF t.op = "syncToCloud"
    THEN AfterCall(base, t.cont @@ [items |-> t.items, saved |-> t.saved],
                   res, pre, st, A)
    ELSE AfterCall(base, t.cont, res, pre, st, A)

\* await db.<method>(...) in a handler, or a call of the gateway as such
Invoke(base, req, cont, st, A) ==
    LET b == Begin(req, st)
    IN IF b.kind = "now" THEN AfterCall(base, cont, b.res, st, st, A)
       ELSE Suspend(base, b.task, cont, A)

\* the state after a step: the stores st and the outcome o
Commit(st, o) ==
    /\ localPeople' = st.lp
    /\ localGroups' = st.lg
    /\ corrupt' = st.cr
    /\ remotePeople' = st.rp
    /\ remoteGroups' = st.rg
    /\ people' = o.app.people
    /\ groups' = o.app.groups
    /\ loading' = o.app.loading
    /\ tasks' = o.tasks
    /\ done' = o.done

---------------------------------------------------------------------------
(* Steps of suspended calls *)

\* the remote answers a request (not one of syncToCloud's saves)
Respond(i) ==
    /\ ~LocalPending
    /\ tasks[i].remote /\ tasks[i].op # "syncToCloud"
    /\ \E error, error2 \in BOOLEAN :
         /\ tasks[i].op # "fetchAll" => error2 = error
         /\ LET t == tasks[i]
                a == RemoteAnswer(t, error, error2, Cur)
                res == a.res @@ [err |-> error \/ error2]
            IN Commit(a.st, Resume(Remove(tasks, i), t, res, Cur, a.st, AppNow))
    /\ UNCHANGED <<cloudConfig, savedConfig, mounted, nextId, overlap, now, view>>
    /\ rendered' = NotRendered

\* a local read-modify-write method writes its blob and returns; of several,
\* the one called first is the first to run on
LocalWrite(i) ==
    /\ ~tasks[i].remote
    /\ \A j \in 1..(i - 1) : tasks[j].remote
    /\ LET t == tasks[i]
           st == LocalWritten(t, Cur)
           res == [out |-> "return", err |-> FALSE]
       IN Commit(st, Resume(Remove(tasks, i), t, res, Cur, st, AppNow))
    /\ UNCHANGED <<cloudConfig, savedConfig, mounted, nextId, overlap, now, view>>
    /\ rendered' = NotRendered

\* the remote answers one of syncToCloud's saves; syncToCloud goes on to the
\* next save, returns after the last, or throws
SyncRespond(i) ==
    /\ ~LocalPending
    /\ tasks[i].op = "syncToCloud"
    /\ \E k \in tasks[i].inflight, error \in BOOLEAN :
         LET t == tasks[i]
             item == t.items[k]
             a == IF item.kind = "group"
                  THEN RemoteAnswer([op |-> "saveGroup", group |-> item.group],
                                    error, error, Cur)
                  ELSE RemoteAnswer([op |-> "savePerson", person |-> item.person],
                                    error, error, Cur)
             saved == t.saved \cup {k}
             rest == t.inflight \ {k}
             n == Len(t.items)
             t1 == [t EXCEPT !.saved = saved,
                             !.inflight = rest \cup SyncNext(n, saved, rest)]
         IN IF a.res.out = "throw"
            THEN Commit(a.st, Resume(Remove(tasks, i), t,
                                     [out |-> "throw", err |-> TRUE], Cur, a.st, AppNow))
            ELSE IF saved = 1..n
            THEN Commit(a.st, Resume(Remove(tasks, i), t1,
                                     [out |-> "return", err |-> FALSE], Cur, a.st, AppNow))
            ELSE Commit(a.st, [app |-> AppNow, tasks |-> [tasks EXCEPT ![i] = t1],
                               done |-> None])
    /\ UNCHANGED <<cloudConfig, savedConfig, mounted, nextId, overlap, now, view>>
    /\ rendered' = NotRendered

---------------------------------------------------------------------------
(* Calls of the gateway as such, by any caller *)

SampleDonor(id, v) ==
    LET base == [id |-> id, name |-> "Al", phoneNumber |-> "555", bloodGroup |-> "O+"]
    IN CASE v = 1 -> base
         [] v = 2 -> base @@ [notes |-> "n", location |-> "x", groupIds |-> <<1>>,
                              lastDonationDate |-> MaxTime]
         [] v = 3 -> base @@ [groupIds |-> <<>>, lastDonationDate |-> 0]

SampleDonors == {SampleDonor(id, v) : id \in DonorIds, v \in 1..3}

SampleGroups == {[id |-> id, name |-> "Staff", color |-> 0] : id \in GroupIds}

DbCont(req) == [h |-> "db", req |-> req, failed |-> FALSE, threw |-> FALSE]

\* a call starts when none is suspended, or, where calls may overlap, when
\* fewer than MaxTasks are
CanCall == tasks = <<>> \/ (overlap /\ Len(tasks) < MaxTasks)

DbCall(req) ==
    /\ CanCall
    /\ Commit(Cur, Invoke(tasks, req, DbCont(req), Cur, AppNow))
    /\ UNCHANGED <<cloudConfig, savedConfig, mounted, nextId, overlap, now, view>>
    /\ rendered' = NotRendered

\* the gateway of these calls: new DatabaseService(cloudConfig)
DbRemote == Remote(cloudConfig)

DbFetchPeople == DbCall([op |-> "fetchPeople", remote |-> DbRemote])

DbFetchGroups == DbCall([op |-> "fetchGroups", remote |-> DbRemote])

DbSavePerson ==
    \E d \in SampleDonors :
        DbCall([op |-> "savePerson", remote |-> DbRemote, person |-> d])

DbDeletePerson ==
    \E id \in DonorIds :
        DbCall([op |-> "deletePerson", remote |-> DbRemote, id |-> id])

DbSaveGroup ==
    \E g \in SampleGroups :
        /\ DbRemote \/ Len(localGroups) < MaxLen
        /\ DbCall([op |-> "saveGroup", remote |-> DbRemote, group |-> g])

DbDeleteGroup ==
    \E id \in GroupIds :
        DbCall([op |-> "deleteGroup", remote |-> DbRemote, id |-> id])

\* the groups handed to both gateways
PairGroups ==
    {[id |-> id, name |-> name, color |-> color] :
        id \in 1..(MaxGroups + 1), name \in {"Staff", "Team"}, color \in {0, 1}}

\* one call made on a gateway of the local store and on a gateway of the
\* remote store, each awaited, the remote answering without error
PairCall(req) ==
    /\ tasks = <<>>
    /\ LET b == Begin(req @@ [remote |-> FALSE], Cur)
           st == IF b.kind = "wait" THEN LocalWritten(b.task, Cur) ELSE Cur
           res == IF b.kind = "wait" THEN [out |-> "return"] ELSE b.res
           a == RemoteAnswer(req, FALSE, FALSE, st)
       IN Commit(a.st, Final(tasks, [h |-> "pair", req |-> req, local |-> res,
                                     remote |-> a.res], AppNow))
    /\ UNCHANGED <<cloudConfig, savedConfig, mounted, nextId, overlap, now, view>>
    /\ rendered' = NotRendered

PairFetchGroups == PairCall([op |-> "fetchGroups"])

PairSaveGroup ==
    \E g \in PairGroups :
        /\ Len(localGroups) < MaxLen
        /\ PairCall([op |-> "saveGroup", group |-> g])

PairDeleteGroup ==
    \E id \in 1..(MaxGroups + 1) : PairCall([op |-> "deleteGroup", id |-> id])

\* the collections handed to syncToCloud
SyncPeople ==
    {[i \in 1..n |-> SampleDonor(i, 2)] : n \in 0..MaxDonors}

SyncGroups ==
    {[i \in 1..n |-> [id |-> i, name |-> "Staff", color |-> 0]] : n \in 0..MaxGroups}

DbSyncToCloud ==
    \E ps \in SyncPeople, gs \in SyncGroups :
        DbCall([op |-> "syncToCloud", remote |-> DbRemote,
                people |-> ps, groups |-> gs])

---------------------------------------------------------------------------
(* App.tsx: events *)

\* an event is handled when no microtask is left, and, where handlers run one
\* at a time, when none is suspended
Ready == mounted /\ ~LocalPending /\ CanCall

FormNames == {"Al"}

FormPhone == "555"

\* the form when the modal opens: blank, or the donor being edited
BlankForm ==
    [name |-> "", phoneNumber |-> "", bloodGroup |-> "O+", notes |-> "",
     groupIds |-> <<>>]

EditForm(person) ==
    With(person, "notes", IF Has(person, "notes") THEN person.notes ELSE "")

TrimNone(str) == str

\* String.prototype.trim on the group names tried
Trim(str) == IF str = " " THEN "" ELSE str

ConfigEffectMigrate(base, cont, st, A) ==
    Invoke(base, [op |-> "syncToCloud", remote |-> cont.remote,
                  people |-> st.lp, groups |-> st.lg],
           [cont EXCEPT !.h = "sync"], st, A)

\* useEffect(() => { refreshData(true) }, [db])
ConfigEffect(base, cont, st, A) == DoRefresh(base, cont, TRUE, st, A)

Mount ==
    /\ ~mounted
    /\ mounted' = TRUE
    /\ Commit(Cur, ConfigEffect(tasks, Cont("load"), Cur, AppNow))
    /\ UNCHANGED <<cloudConfig, savedConfig, nextId, overlap, now, view>>
    /\ rendered' = NotRendered

HandleSavePerson ==
    /\ Ready
    /\ \E e \in {0} \cup DOMAIN people, name \in FormNames \cup {""},
          phone \in {"", FormPhone} :
         LET form == [IF e = 0 THEN BlankForm ELSE EditForm(people[e])
                          EXCEPT !.name = name, !.phoneNumber = phone]
         IN IF form.name = "" \/ form.phoneNumber = ""
            THEN /\ done' = [h |-> "rejected", of |-> "save"]
                 /\ UNCHANGED <<stores, people, groups, loading, tasks, nextId>>
            ELSE /\ e = 0 => nextId.person < MaxDonors
                 /\ LET id == IF e = 0 THEN nextId.person + 1 ELSE people[e].id
                        person == With(form, "id", id)
                    IN /\ nextId' = IF e = 0 THEN [nextId EXCEPT !.person = id]
                                    ELSE nextId
                       /\ Commit(Cur, Invoke(tasks,
                              [op |-> "savePerson", remote |-> Remote(cloudConfig),
                               person |-> person],
                              Cont("save") @@ [person |-> person], Cur, AppNow))
    /\ UNCHANGED <<cloudConfig, savedConfig, mounted, overlap, now, view>>
    /\ rendered' = NotRendered

OptimisticDeleteNone(ps, id) == ps

\* setPeople(prev => prev.filter(p => p.id !== id))
OptimisticDelete(ps, id) == Filter(ps, LAMBDA p : p.id # id)

HandleDeletePerson ==
    /\ Ready
    /\ \E e \in DOMAIN people :
         LET id == people[e].id
             originalPeople == people
             A == [AppNow EXCEPT !.people = OptimisticDelete(@, id)]
         IN Commit(Cur, Invoke(tasks,
                [op |-> "deletePerson", remote |-> Remote(cloudConfig), id |-> id],
                Cont("delete") @@ [id |-> id, originalPeople |-> originalPeople],
                Cur, A))
    /\ UNCHANGED <<cloudConfig, savedConfig, mounted, nextId, overlap, now, view>>
    /\ rendered' = NotRendered

UpdatedPersonNoStamp(person, timestamp) == person

\* { ...person, lastDonationDate: timestamp }
UpdatedPerson(person, timestamp) == With(person, "lastDonationDate", timestamp)

\* the Mark Donated button is on the cards of the eligible donors
HandleMarkDonated ==
    /\ Ready
    /\ \E e \in DOMAIN people :
         LET person == people[e]
             timestamp == now
             updatedPerson == UpdatedPerson(person, timestamp)
             A == [AppNow EXCEPT !.people =
                      [i \in DOMAIN @ |-> IF @[i].id = person.id
                                          THEN updatedPerson ELSE @[i]]]
         IN /\ IsEligible(person, now)
            /\ Commit(Cur, Invoke(tasks,
                [op |-> "savePerson", remote |-> Remote(cloudConfig),
                 person |-> updatedPerson],
                Cont("mark") @@ [person |-> updatedPerson, before |-> person,
                                 timestamp |-> timestamp],
                Cur, A))
    /\ UNCHANGED <<cloudConfig, savedConfig, mounted, nextId, overlap, now, view>>
    /\ rendered' = NotRendered

HandleSaveGroup ==
    /\ Ready
    /\ \E groupName \in {"", " ", "Staff"} :
         IF Trim(groupName) = ""
         THEN /\ done' = [h |-> "rejected", of |-> "saveGroup"]
              /\ UNCHANGED <<stores, people, groups, loading, tasks, nextId>>
         ELSE /\ nextId.group < MaxGroups
              /\ Remote(cloudConfig) \/ Len(localGroups) < MaxLen
              /\ LET newGroup == [id |-> nextId.group + 1, name |-> Trim(groupName),
                                  color |-> Len(groups) % NumColors]
                 IN /\ nextId' = [nextId EXCEPT !.group = @ + 1]
                    /\ Commit(Cur, Invoke(tasks,
                           [op |-> "saveGroup", remote |-> Remote(cloudConfig),
                            group |-> newGroup],
                           Cont("saveGroup") @@ [group |-> newGroup], Cur, AppNow))
    /\ UNCHANGED <<cloudConfig, savedConfig, mounted, overlap, now, view>>
    /\ rendered' = NotRendered

HandleDeleteGroup ==
    /\ Ready
    /\ \E e \in DOMAIN groups :
         Commit(Cur, Invoke(tasks,
             [op |-> "deleteGroup", remote |-> Remote(cloudConfig),
              id |-> groups[e].id],
             Cont("deleteGroup") @@ [id |-> groups[e].id], Cur, AppNow))
    /\ UNCHANGED <<cloudConfig, savedConfig, mounted, nextId, overlap, now, view>>
    /\ rendered' = NotRendered

\* toggleCloud(!cloudConfig.active), and the effect of the new db
ToggleCloud ==
    /\ Ready
    /\ LET newConfig == [cloudConfig EXCEPT !.active = ~@]
       IN /\ cloudConfig' = newConfig
          /\ savedConfig' = newConfig
          /\ Commit(Cur, ConfigEffect(tasks, ContOf("load", newConfig), Cur, AppNow))
    /\ UNCHANGED <<mounted, nextId, overlap, now, view>>
    /\ rendered' = NotRendered

HandleSyncLocalToCloud ==
    /\ Ready
    /\ cloudConfig.active
    /\ LET A == [AppNow EXCEPT !.loading = TRUE]
           c == Cont("sync")
       IN IF corrupt # {}
          THEN Commit(Cur, Final(tasks, Alert([c EXCEPT !.threw = TRUE], MsgSyncFail),
                                 [A EXCEPT !.loading = FALSE]))
          ELSE Commit(Cur, Invoke(tasks,
                   [op |-> "syncToCloud", remote |-> Remote(cloudConfig),
                    people |-> localPeople, groups |-> localGroups], c, Cur, A))
    /\ UNCHANGED <<cloudConfig, savedConfig, mounted, nextId, overlap, now, view>>
    /\ rendered' = NotRendered

---------------------------------------------------------------------------
(* The App without groups (src/unnamed/part_000), on the DatabaseService   *)
(* without groups (src/unnamed/part_003)                                   *)

\* the form when the modal opens: blank (Add Donor), or the name, phone
\* number, blood group and notes of the donor being edited
NoGroupsBlankForm ==
    [name |-> "", phoneNumber |-> "", bloodGroup |-> "O+", notes |-> ""]

NoGroupsEditForm(person) ==
    [name |-> person.name, phoneNumber |-> person.phoneNumber,
     bloodGroup |-> person.bloodGroup,
     notes |-> IF Has(person, "notes") THEN person.notes ELSE ""]

\* handleSavePerson: person = { ...formData, id: personId }
NoGroupsHandleSavePerson ==
    /\ Ready
    /\ \E e \in {0} \cup DOMAIN people, name \in {"", "Al", "Bo"},
          bloodGroup \in {"O+", "A-"} :
         LET opened == IF e = 0 THEN NoGroupsBlankForm ELSE NoGroupsEditForm(people[e])
             form == [opened EXCEPT !.name = name, !.phoneNumber = FormPhone,
                                    !.bloodGroup = bloodGroup]
         IN IF form.name = "" \/ form.phoneNumber = ""
            THEN /\ done' = [h |-> "rejected", of |-> "saveNoGroups"]
                 /\ UNCHANGED <<stores, people, groups, loading, tasks, nextId>>
            ELSE /\ e = 0 => nextId.person < MaxDonors
                 /\ LET id == IF e = 0 THEN nextId.person + 1 ELSE people[e].id
                        person == With(form, "id", id)
                        c == Cont("saveNoGroups") @@ [person |-> person]
                    IN /\ nextId' = IF e = 0 THEN [nextId EXCEPT !.person = id]
                                    ELSE nextId
                       /\ Commit(Cur, Invoke(tasks,
                              [op |-> "savePerson", remote |-> Remote(cloudConfig),
                               person |-> person],
                              IF e = 0 THEN c ELSE c @@ [before |-> people[e]],
                              Cur, AppNow))
    /\ UNCHANGED <<cloudConfig, savedConfig, mounted, overlap, now, view>>
    /\ rendered' = NotRendered

---------------------------------------------------------------------------
(* App.tsx: the directory view *)

DefaultView ==
    [searchQuery |-> "", filterGroup |-> "All", filterGroupId |-> AllGroups,
     sortBy |-> "name-asc"]

\* the view is on screen once the load has completed
Shown == mounted /\ ~loading

SearchTexts == {"", "ali", "+", "A"}

FilterTypes == {"A+", "O-"}

SetView(v) ==
    /\ Shown
    /\ view' = v
    /\ rendered' = NotRendered
    /\ UNCHANGED <<stores, cloudConfig, savedConfig, people, groups, loading,
                   mounted, nextId, tasks, done, overlap, now>>

SetSearchQuery ==
    \E q \in SearchTexts : SetView([view EXCEPT !.searchQuery = q])

SetFilterGroup ==
    \E bg \in {"All"} \cup FilterTypes : SetView([view EXCEPT !.filterGroup = bg])

SetSortBy ==
    \E k \in {"name-asc", "blood-group", "status"} :
        SetView([view EXCEPT !.sortBy = k])

\* the card of a donor of the directory
Card(person, t) ==
    [person |-> person, elig |-> IsEligible(person, t),
     rec |-> GetRecoveryInfo(person, t)]

\* a render: filteredAndSortedPeople is evaluated, then the cards of its
\* donors, Date.now() reading the same throughout
Render ==
    /\ Shown
    /\ rendered' =
          LET result == Query(people, view, now)
          IN [h |-> "render", now |-> now, people |-> people, view |-> view,
              result |-> result,
              cards |-> [i \in DOMAIN result |-> Card(result[i], now)]]
    /\ UNCHANGED <<stores, cloudConfig, savedConfig, people, groups, loading,
                   mounted, nextId, tasks, done, overlap, now, view>>

\* the compatibility of a blood type is looked up for display
ShowCompatibility ==
    /\ Shown
    /\ \E bg \in Range(BLOOD_GROUPS) :
          rendered' = [h |-> "compatibility", bloodGroup |-> bg,
                       canDonateTo |-> COMPATIBILITY_MAP[bg].canDonateTo,
                       canReceiveFrom |-> COMPATIBILITY_MAP[bg].canReceiveFrom]
    /\ UNCHANGED <<stores, cloudConfig, savedConfig, people, groups, loading,
                   mounted, nextId, tasks, done, overlap, now, view>>

\* time passes, up to the clock reading last
Tick(last) ==
    /\ now < last
    /\ now' = now + 1
    /\ rendered' = NotRendered
    /\ UNCHANGED <<stores, cloudConfig, savedConfig, people, groups, loading,
                   mounted, nextId, tasks, done, overlap, view>>

---------------------------------------------------------------------------
(* Specifications *)

DefaultConfig == [supabaseUrl |-> "", supabaseKey |-> "", active |-> FALSE]

\* a configuration with the credentials typed in
CloudConfigOff == [supabaseUrl |-> "url", supabaseKey |-> "key", active |-> FALSE]

CloudConfigOn == [supabaseUrl |-> "url", supabaseKey |-> "key", active |-> TRUE]

InitCommon ==
    /\ view = DefaultView
    /\ rendered = NotRendered
    /\ localPeople = <<>>
    /\ localGroups = <<>>
    /\ corrupt \in {{}, {"people"}, {"groups"}}
    /\ remotePeople = <<>>
    /\ remoteGroups = <<>>
    /\ savedConfig = cloudConfig
    /\ people = <<>>
    /\ groups = <<>>
    /\ loading = TRUE
    /\ mounted = FALSE
    /\ nextId = [person |-> 0, group |-> 0]
    /\ tasks = <<>>
    /\ done = None

InitDb ==
    /\ cloudConfig \in {DefaultConfig, CloudConfigOn}
    /\ InitCommon
    /\ now = MaxTime
    /\ overlap = FALSE

Steps ==
    \/ \E i \in DOMAIN tasks : Respond(i)
    \/ \E i \in DOMAIN tasks : LocalWrite(i)
    \/ \E i \in DOMAIN tasks : SyncRespond(i)

\* the local gateway under calls made while others are suspended
InitDbOverlap ==
    /\ cloudConfig = DefaultConfig
    /\ InitCommon
    /\ now = MaxTime
    /\ overlap = TRUE

NextDbOverlap ==
    \/ DbFetchPeople
    \/ DbSavePerson
    \/ DbDeletePerson
    \/ \E i \in DOMAIN tasks : LocalWrite(i)

SpecDbOverlap == InitDbOverlap /\ [][NextDbOverlap]_vars

InitPair ==
    /\ cloudConfig = DefaultConfig
    /\ InitCommon
    /\ corrupt = {}
    /\ now = MaxTime
    /\ overlap = FALSE

NextPair ==
    \/ PairFetchGroups
    \/ PairSaveGroup
    \/ PairDeleteGroup

\* the local gateway and the remote gateway under the same calls
SpecPair == InitPair /\ [][NextPair]_vars

NextDb ==
    \/ DbFetchPeople
    \/ DbFetchGroups
    \/ DbSavePerson
    \/ DbDeletePerson
    \/ DbSaveGroup
    \/ DbDeleteGroup
    \/ DbSyncToCloud
    \/ Steps

\* the gateway under calls made one at a time
SpecDb == InitDb /\ [][NextDb]_vars

\* cloudConfig starts as the saved configuration, or as the default one
Init ==
    /\ cloudConfig \in {DefaultConfig, CloudConfigOff}
    /\ InitCommon
    /\ now \in 1..MaxTime
    /\ overlap = FALSE

Next ==
    \/ Mount
    \/ HandleSavePerson
    \/ HandleDeletePerson
    \/ HandleMarkDonated
    \/ HandleSaveGroup
    \/ HandleDeleteGroup
    \/ ToggleCloud
    \/ HandleSyncLocalToCloud
    \/ Steps

\* the App with its handlers run one at a time
Spec == Init /\ [][Next]_vars

---------------------------------------------------------------------------
(* The directory view of a loaded App *)

\* the first clock reading: more than the days of recovery after the clock's
\* zero, as any clock of today reads
ClockStart == RECOVERY_DAYS * TicksPerDay + 1

\* the last clock reading: a recovery that starts within a day of ClockStart
\* is over by then
MaxClock == ClockStart + (RECOVERY_DAYS + 1) * TicksPerDay

\* the App once it has loaded the donors ps of the local store
InitLoaded(ps) ==
    /\ cloudConfig = DefaultConfig
    /\ savedConfig = cloudConfig
    /\ localPeople = ps
    /\ localGroups = <<>>
    /\ corrupt = {}
    /\ remotePeople = <<>>
    /\ remoteGroups = <<>>
    /\ people = ps
    /\ groups = <<>>
    /\ loading = FALSE
    /\ mounted = TRUE
    /\ nextId = [person |-> Len(ps), group |-> 0]
    /\ tasks = <<>>
    /\ done = None
    /\ overlap = FALSE
    /\ rendered = NotRendered

\* last-donation timestamps: none recorded (0), RECOVERY_DAYS before
\* ClockStart to the tick, one tick short of that, a tick before ClockStart,
\* at ClockStart, and after it (a clock that was set back)
ClockTimes == {0, 1, 2, ClockStart - 1, ClockStart, ClockStart + TicksPerDay + 1}

ClockDonor(withDate, t) ==
    LET base == [id |-> 1, name |-> "Al", phoneNumber |-> "555", bloodGroup |-> "O+",
                 notes |-> "", groupIds |-> <<>>]
    IN IF withDate THEN With(base, "lastDonationDate", t) ELSE base

ClockPeople ==
    {<<ClockDonor(FALSE, 0)>>} \cup {<<ClockDonor(TRUE, t)>> : t \in ClockTimes}

\* the App once it has loaded the donors ps of the remote store, in a
\* browser where handlers are called while others are suspended
InitRemoteLoaded(lp, ps) ==
    /\ cloudConfig = CloudConfigOn
    /\ savedConfig = cloudConfig
    /\ localPeople = lp
    /\ localGroups = <<>>
    /\ corrupt = {}
    /\ remotePeople = [i \in DOMAIN ps |-> PersonPayload(ps[i])]
    /\ remoteGroups = <<>>
    /\ people = PeopleFromRows(remotePeople)
    /\ groups = <<>>
    /\ loading = FALSE
    /\ mounted = TRUE
    /\ nextId = [person |-> Len(ps), group |-> 0]
    /\ tasks = <<>>
    /\ done = None
    /\ overlap = TRUE
    /\ rendered = NotRendered
    /\ view = DefaultView
    /\ now = MaxTime

InitOverlap ==
    \E ps \in SyncPeople : Len(ps) = MaxDonors /\ InitRemoteLoaded(<<>>, ps)

NextOverlap ==
    \/ HandleDeletePerson
    \/ \E i \in DOMAIN tasks : Respond(i)

\* deletes of donors of the remote store, called while others are in flight
SpecOverlap == InitOverlap /\ [][NextOverlap]_vars

InitSwitch ==
    \E lp, ps \in SyncPeople : InitRemoteLoaded(lp, ps)

NextSwitch ==
    \/ ToggleCloud
    \/ \E i \in DOMAIN tasks : Respond(i) /\ ~done'.failed

\* the sync switch used while the fetch of an earlier db is in flight; every
\* fetch returns
SpecSwitch == InitSwitch /\ [][NextSwitch]_vars

\* donors as the App without groups stores them: no donation recorded, one
\* a tick before ClockStart (recovering), or one at the clock's first tick
\* (recovered)
NoGroupsDonor(id, date) ==
    LET base == [id |-> id, name |-> "Al", phoneNumber |-> FormPhone,
                 bloodGroup |-> "O+", notes |-> ""]
    IN IF date = 0 THEN base ELSE With(base, "lastDonationDate", date)

NoGroupsPeople ==
    UNION {[1..n -> {0, 1, ClockStart - 1}] : n \in 0..MaxDonors}

InitNoGroups ==
    /\ \E dates \in NoGroupsPeople :
          InitLoaded([i \in DOMAIN dates |-> NoGroupsDonor(i, dates[i])])
    /\ view = DefaultView
    /\ now = ClockStart

NextNoGroups ==
    \/ NoGroupsHandleSavePerson
    \/ \E i \in DOMAIN tasks : LocalWrite(i)

\* the App without groups, loaded from the local store
SpecNoGroups == InitNoGroups /\ [][NextNoGroups]_vars

InitClock ==
    /\ \E ps \in ClockPeople : InitLoaded(ps)
    /\ view = DefaultView
    /\ now = ClockStart

NextClock ==
    \/ HandleMarkDonated
    \/ \E i \in DOMAIN tasks : LocalWrite(i)
    \/ Tick(MaxClock)
    \/ Render

\* the cards of a donor as time passes and donations are marked
SpecClock == InitClock /\ [][NextClock]_vars

\* the donors of the directories queried
QueryDonor(id, k) ==
    CASE k = 1 -> [id |-> id, name |-> "Alice", phoneNumber |-> "555",
                   bloodGroup |-> "A+", notes |-> "", groupIds |-> <<1>>]
      [] k = 2 -> [id |-> id, name |-> "Bob", phoneNumber |-> "5A",
                   bloodGroup |-> "O-", notes |-> "", groupIds |-> <<>>,
                   lastDonationDate |-> 2]
      [] k = 3 -> [id |-> id, name |-> "Al", phoneNumber |-> "555",
                   bloodGroup |-> "AB+", notes |-> "",
                   lastDonationDate |-> ClockStart]

QueryPeople ==
    UNION {[1..n -> 1..3] : n \in 0..MaxDonors}

Views ==
    [searchQuery : SearchTexts, filterGroup : {"All"} \cup FilterTypes,
     filterGroupId : {AllGroups} \cup GroupIds,
     sortBy : {"name-asc", "name-desc", "blood-group", "status"}]

InitQuery ==
    /\ \E ks \in QueryPeople : InitLoaded([i \in DOMAIN ks |-> QueryDonor(i, ks[i])])
    /\ view \in Views
    /\ now = ClockStart

NextQuery ==
    \/ SetSearchQuery
    \/ SetFilterGroup
    \/ SetSortBy
    \/ Tick(ClockStart + TicksPerDay)
    \/ Render
    \/ ShowCompatibility

\* the directory under every setting of its search box, filters and sort key
SpecQuery == InitQuery /\ [][NextQuery]_vars

---------------------------------------------------------------------------
(* Properties *)

DbDone(op) == done.h = "db" /\ done.req.op = op

AlertsOf(d) == Range(d.alerts)

UniqueIds(s) == \A i, j \in DOMAIN s : s[i].id = s[j].id => i = j

\* C1: when deletePerson fails in handleDeletePerson, the in-memory donors
\* after the handler are the donors as they were just before the delete, in
\* the same order, and the failure has been notified.
C1_DeleteRollback ==
    (done.h = "delete" /\ done.threw) =>
        /\ people = done.originalPeople
        /\ MsgDelete \in AlertsOf(done)

C1_Witness ==
    /\ done.h = "delete" /\ done.threw
    /\ Len(done.originalPeople) = 2
    /\ done.originalPeople[1].id # done.id

\* C2: once deleteGroup(g) has returned, no donor that fetchPeople() returns
\* from that store has g among its groupIds.
C2_DeleteGroupCascades ==
    (/\ DbDone("deleteGroup") /\ done.res.out = "return"
     /\ \E g \in Range(StoredGroups(done.req.remote, done.pre)) : g.id = done.req.id) =>
        \A p \in Range(StoredPeople(done.req.remote, Cur)) : ~InGroup(p, done.req.id)

\* C3: syncToCloud has at most one save in flight, issues its saves in the
\* order of its lists, and issues no savePerson before every saveGroup has
\* returned.
C3_SyncSequential ==
    \A i \in DOMAIN tasks :
        tasks[i].op = "syncToCloud" =>
            LET t == tasks[i]
                issued == t.saved \cup t.inflight
            IN /\ Cardinality(t.inflight) <= 1
               /\ issued = 1..Cardinality(issued)
               /\ \A k \in t.inflight : \A j \in 1..(k - 1) : j \in t.saved
               /\ \A k \in issued :
                     t.items[k].kind = "person" =>
                        \A j \in DOMAIN t.items :
                            t.items[j].kind = "group" => j \in t.saved

C3_Witness ==
    \E i \in DOMAIN tasks :
        /\ tasks[i].op = "syncToCloud"
        /\ \E k \in tasks[i].inflight : tasks[i].items[k].kind = "person"
        /\ \E j \in tasks[i].saved : tasks[i].items[j].kind = "group"
        /\ \E j \in tasks[i].saved : tasks[i].items[j].kind = "person"

\* C4: once savePerson(d) has returned, fetchPeople() on the same store
\* returns a donor whose attributes all equal d's.
C4_RoundTrip ==
    (DbDone("savePerson") /\ done.res.out = "return") =>
        \E p \in Range(StoredPeople(done.req.remote, Cur)) : p = done.req.person

\* C5: savePerson replaces the stored donor of the same id in place and
\* leaves the number of stored donors alone, or else adds exactly one donor
\* at the end; stored donor ids stay unique under savePerson and deletePerson.
C5_UpsertById ==
    /\ UniqueIds(localPeople)
    /\ UniqueIds(remotePeople)
    /\ (DbDone("savePerson") /\ done.res.out = "return") =>
          LET before == StoredPeople(done.req.remote, done.pre)
              after == StoredPeople(done.req.remote, Cur)
              d == done.req.person
              at == FindIndex(before, LAMBDA p : p.id = d.id)
              slot == IF at > 0 THEN at ELSE Len(before) + 1
          IN /\ Len(after) = IF at > 0 THEN Len(before) ELSE Len(before) + 1
             /\ after[slot].id = d.id /\ after[slot].name = d.name
             /\ \A j \in DOMAIN before : j # slot => after[j] = before[j]

C5_Witness ==
    /\ DbDone("savePerson") /\ done.res.out = "return"
    /\ Len(StoredPeople(done.req.remote, done.pre)) = 2
    /\ StoredPeople(done.req.remote, done.pre)[1].id = done.req.person.id
    /\ StoredPeople(done.req.remote, done.pre)[1] # StoredPeople(done.req.remote, Cur)[1]

\* C6: when savePerson fails in handleMarkDonated, the failure is notified
\* and, once the handler has completed, the in-memory donors are the donors
\* the gateway holds.
C6_MarkFailureRefetches ==
    (done.h = "mark" /\ done.threw) =>
        /\ MsgMark \in AlertsOf(done)
        /\ people = StoredPeople(done.remote, Cur)

\* C7: a gateway method that receives an error from the remote throws; it
\* does not return.
C7_RemoteErrorThrows ==
    (done.h = "db" /\ done.req.remote /\ done.res.err) => done.res.out = "throw"

C7_Witness ==
    /\ DbDone("fetchPeople") /\ done.req.remote /\ done.res.err
    /\ remotePeople # <<>>

\* C8: a handler during which the remote store failed has shown a failure
\* notification by the time it completes.
C8_RemoteFailureNotified ==
    (done.h \in {"load", "save", "delete", "mark", "saveGroup", "deleteGroup", "sync"}
        /\ done.failed) =>
        AlertsOf(done) \cap FailureMsgs # {}

\* C9: fetchPeople and fetchGroups on a local blob of malformed JSON return
\* the empty collection.
C9_MalformedReadsEmpty ==
    /\ (DbDone("fetchPeople") /\ ~done.req.remote /\ "people" \in done.pre.cr) =>
          (done.res.out = "return" /\ done.res.data = <<>>)
    /\ (DbDone("fetchGroups") /\ ~done.req.remote /\ "groups" \in done.pre.cr) =>
          (done.res.out = "return" /\ done.res.data = <<>>)

\* C10: the step that switches cloudConfig.active leaves the local blobs and
\* the remote tables as they are and issues nothing but the fetches of
\* refreshData; the load it starts completes without touching the stores
\* and without issuing a call.
C10_ToggleFrame ==
    [][/\ cloudConfig' # cloudConfig =>
             /\ UNCHANGED stores
             /\ \A i \in DOMAIN tasks' :
                   i > Len(tasks) =>
                       tasks'[i].op = "fetchAll" /\ tasks'[i].cont.h = "load"
       /\ done'.h = "load" => (UNCHANGED stores /\ Len(tasks') <= Len(tasks))
       /\ \A i \in DOMAIN tasks' : tasks'[i].cont.h = "load" => tasks'[i].op = "fetchAll"
      ]_vars

C10_Witness ==
    /\ cloudConfig.active /\ Remote(cloudConfig)
    /\ localPeople # <<>>
    /\ remotePeople = <<>>
    /\ done.h = "load" /\ done.refetched = "return"
    /\ people = <<>>

---------------------------------------------------------------------------
(* The eligibility of a donor and the directory query *)

RecoveryTicks == RECOVERY_DAYS * TicksPerDay

Cards == IF rendered.h = "render" THEN Range(rendered.cards) ELSE {}

HasDate(p) == Has(p, "lastDonationDate")

\* C11: the card of a donor that has a last-donation timestamp t, rendered
\* when the clock reads now, shows the donor eligible exactly when now - t
\* is at least 56 days.
C11_EligibleIffRecovered ==
    \A c \in Cards :
        HasDate(c.person) =>
            (c.elig <=> rendered.now - c.person.lastDonationDate >= RecoveryTicks)

C11_Witness ==
    \E c \in Cards :
        /\ HasDate(c.person)
        /\ rendered.now - c.person.lastDonationDate = RecoveryTicks - 1
        /\ ~c.elig

\* C12: for a donor without a last-donation timestamp, whatever the clock
\* reads, isEligible is true and getRecoveryInfo is null.
C12_NoDateEligible ==
    \A c \in Cards : ~HasDate(c.person) => (c.elig /\ c.rec = Null)

C12_Witness ==
    \E c \in Cards : ~HasDate(c.person) /\ c.elig /\ rendered.now > ClockStart

\* C13: for a donor that is not eligible, getRecoveryInfo is a number of
\* days, the least integer that is at least 56 minus the days elapsed, and
\* it is at least 1.
C13_RemainingIsCeiling ==
    \A c \in Cards :
        ~c.elig =>
            /\ HasDate(c.person)
            /\ Has(c.rec, "days")
            /\ LET left == RecoveryTicks - (rendered.now - c.person.lastDonationDate)
                   n == c.rec.days
               IN /\ n * TicksPerDay >= left
                  /\ (n - 1) * TicksPerDay < left
                  /\ n >= 1

\* a donor in the last, partly elapsed, day of the recovery
C13_Witness ==
    \E c \in Cards :
        /\ ~c.elig
        /\ c.rec = Days(1)
        /\ rendered.now - c.person.lastDonationDate = RecoveryTicks - 1

AtBoundary(c) ==
    HasDate(c.person) /\ rendered.now - c.person.lastDonationDate = RecoveryTicks

C15_MarkStartsRecovery ==
    (rendered.h = "render" /\ done.h = "mark" /\ ~done.threw
        /\ ~HasDate(done.before)) =>
        LET T == done.timestamp
            mine == {c \in Cards : c.person.id = done.person.id}
        IN /\ mine # {}
           /\ \A c \in mine :
                /\ rendered.now = T => (~c.elig /\ c.rec = Days(RECOVERY_DAYS))
                /\ rendered.now < T + RecoveryTicks => ~c.elig
                /\ rendered.now >= T + RecoveryTicks => c.elig

C15_Witness ==
    /\ rendered.h = "render" /\ done.h = "mark" /\ ~done.threw
    /\ ~HasDate(done.before)
    /\ rendered.now = done.timestamp + RecoveryTicks
    /\ \E c \in Cards : c.person.id = done.person.id /\ c.elig

\* C16: for all blood types X and Y, Y is in COMPATIBILITY_MAP[X].canDonateTo
\* exactly when X is in COMPATIBILITY_MAP[Y].canReceiveFrom.
\* Here X is the type looked up, any of the 8, and Y every type.
C16_CompatibilityBidirectional ==
    rendered.h = "compatibility" =>
        LET X == rendered.bloodGroup
        IN \A Y \in Range(BLOOD_GROUPS) :
              /\ Y \in Range(rendered.canDonateTo)
                    <=> X \in Range(COMPATIBILITY_MAP[Y].canReceiveFrom)
              /\ Y \in Range(rendered.canReceiveFrom)
                    <=> X \in Range(COMPATIBILITY_MAP[Y].canDonateTo)

C16_Witness ==
    /\ rendered.h = "compatibility"
    /\ rendered.bloodGroup = "O-"
    /\ Range(rendered.canDonateTo) = Range(BLOOD_GROUPS)
    /\ rendered.canReceiveFrom = <<"O-">>

\* how many times d is in s
Count(s, d) == Cardinality({i \in DOMAIN s : s[i] = d})

\* C17: the query result holds, once each, the donors of the collection that
\* pass the search predicate, the blood-type filter ('All' or the same type)
\* and the group filter ('All' or a group of the donor), and nothing else.
C17_FilterConjunctive ==
    rendered.h = "render" =>
        LET v == rendered.view
            pass(d) == /\ MatchesSearch(d, v.searchQuery)
                       /\ (v.filterGroup = "All" \/ d.bloodGroup = v.filterGroup)
                       /\ (v.filterGroupId = AllGroups
                             \/ (Has(d, "groupIds")
                                   /\ \E i \in DOMAIN d.groupIds :
                                         d.groupIds[i] = v.filterGroupId))
        IN \A d \in Range(rendered.people) \cup Range(rendered.result) :
              Count(rendered.result, d) =
                  IF d \in Range(rendered.people) /\ pass(d) THEN 1 ELSE 0

\* two donors, of which one passes three filters that are all set
C17_Witness ==
    /\ rendered.h = "render"
    /\ rendered.view.searchQuery = "ali"
    /\ rendered.view.filterGroup = "A+"
    /\ rendered.view.filterGroupId = 1
    /\ Len(rendered.people) = 2
    /\ Len(rendered.result) = 1

\* s with its letters in lower case is found in str with its letters in
\* lower case
FoundIn(str, s) == Includes(ToLowerCase(Chars(str)), ToLowerCase(Chars(s)))

\* C18: with the filters at 'All', a donor is in the query result exactly
\* when the search text is, letter case apart, a substring of the donor's
\* name, phone number or blood type; the empty text accepts every donor.
C18_SearchCaseInsensitive ==
    (rendered.h = "render" /\ rendered.view.filterGroup = "All"
        /\ rendered.view.filterGroupId = AllGroups) =>
        \A d \in Range(rendered.people) :
            d \in Range(rendered.result) <=>
                \/ FoundIn(d.name, rendered.view.searchQuery)
                \/ FoundIn(d.phoneNumber, rendered.view.searchQuery)
                \/ FoundIn(d.bloodGroup, rendered.view.searchQuery)

\* C19: with the sort key 'status', in the query result no donor that is not
\* eligible precedes an eligible one, and of two donors that are both
\* eligible or both not, the one that precedes does not follow by name;
\* eligible as on the cards of that render.
C19_StatusOrder ==
    (rendered.h = "render" /\ rendered.view.sortBy = "status") =>
        \A i, j \in DOMAIN rendered.cards :
            i < j =>
                LET a == rendered.cards[i]
                    b == rendered.cards[j]
                IN /\ ~(~a.elig /\ b.elig)
                   /\ a.elig = b.elig => LocaleCompare(a.person.name, b.person.name) <= 0

\* an eligible donor that follows in the collection, and precedes in the result
C19_Witness ==
    /\ rendered.h = "render" /\ rendered.view.sortBy = "status"
    /\ Len(rendered.result) = 2
    /\ rendered.result = <<rendered.people[2], rendered.people[1]>>
    /\ rendered.cards[1].elig /\ ~rendered.cards[2].elig
    /\ LocaleCompare(rendered.result[1].name, rendered.result[2].name) > 0

\* C20: the query evaluated again on the same donors, with the same search
\* text, filters and sort key, at the same or a later clock reading, gives
\* the sequence that the render gave.
C20_QueryRepeatable ==
    rendered.h = "render" =>
        \A t \in rendered.now..(ClockStart + TicksPerDay) :
            Query(rendered.people, rendered.view, t) = rendered.result

---------------------------------------------------------------------------
(* Overlapping calls, failures and validation *)

Ids(s) == {s[i].id : i \in DOMAIN s}

\* C21: once every one of the overlapping handleDeletePerson calls has
\* finished, the donors in memory are the donors that the store holds.
C21_OverlappingDeletes ==
    (tasks = <<>> /\ done.h = "delete") =>
        Ids(people) = Ids(StoredPeople(done.remote, Cur))

Handlers == {"save", "delete", "mark", "saveGroup", "deleteGroup"}

\* C22: with handlers run one at a time, when a handler that was called
\* with the collections in sync with the selected store has completed, the
\* collections are in sync with that store, whether its gateway calls, the
\* refresh fetch among them, succeeded or failed.
C22_InSyncAtRest ==
    (tasks = <<>> /\ done.h \in Handlers /\ done.synced) => InSync(cloudConfig)

\* C23: a local savePerson or deletePerson writes the blob it read when it
\* was called, changed by its own donor only, whatever has been written to
\* the blob since: of two calls that both read before either writes, the
\* write of the first is lost.
C23_LastWriterWins ==
    [][\A i \in DOMAIN tasks :
          (~tasks[i].remote /\ tasks[i].op \in {"savePerson", "deletePerson"}
              /\ tasks' = Remove(tasks, i) /\ done'.h = "db") =>
              localPeople' = IF tasks[i].op = "savePerson"
                             THEN LocalSavePerson(tasks[i].read, tasks[i].person)
                             ELSE LocalDeletePerson(tasks[i].read, tasks[i].id)]_vars

\* a save has completed and a donor that another call had written is gone
C23_Witness ==
    /\ done.h = "db" /\ done.req.op = "savePerson" /\ ~done.req.remote
    /\ done.res.out = "return"
    /\ \E i \in DOMAIN done.pre.lp :
          /\ done.pre.lp[i].id # done.req.person.id
          /\ done.pre.lp[i].id \notin Ids(localPeople)

Stored(item) ==
    IF item.kind = "group"
    THEN \E i \in DOMAIN remoteGroups : remoteGroups[i] = GroupPayload(item.group)
    ELSE \E i \in DOMAIN remotePeople : remotePeople[i] = PersonPayload(item.person)

\* C25: when a save of syncToCloud fails, the saves that returned are the
\* ones before it in the order groups, then donors, and their rows are in
\* the remote store; no save is in flight or made after it; the alerts of
\* handleSyncLocalToCloud are the failure alert, once.
C25_PartialSync ==
    (done.h = "sync" /\ done.threw /\ Has(done, "saved")) =>
        /\ \E k \in 0..(Len(done.items) - 1) : done.saved = 1..k
        /\ \A k \in done.saved : Stored(done.items[k])
        /\ tasks = <<>>
        /\ done.alerts = <<MsgSyncFail>>

\* the failing save is not the first, and not the last
C25_Witness ==
    /\ done.h = "sync" /\ done.threw /\ Has(done, "saved")
    /\ done.saved # {}
    /\ Cardinality(done.saved) + 1 < Len(done.items)
    /\ ~Stored(done.items[Len(done.items)])

\* C26: once no fetch is in flight after the configuration changed, the
\* collections hold what the store of the current configuration holds.
C26_CurrentStoreWins ==
    (tasks = <<>> /\ done.h = "load") =>
        /\ people = StoredPeople(Remote(cloudConfig), Cur)
        /\ groups = StoredGroups(Remote(cloudConfig), Cur)

\* C27: when handleSyncLocalToCloud has alerted "Synchronization
\* successful!", every group and every donor of the local blobs has its row
\* in the remote store.
C27_SuccessMeansSaved ==
    (done.h = "sync" /\ MsgSyncOk \in AlertsOf(done)) =>
        \A k \in DOMAIN SyncItems(localPeople, localGroups) :
            Stored(SyncItems(localPeople, localGroups)[k])

\* C28: in the App without groups, once the edit of a donor is saved and
\* the list reloaded, the donor has the id, the last-donation timestamp and
\* the eligibility it had before.
C28_EditKeepsDonation ==
    (tasks = <<>> /\ done.h = "saveNoGroups" /\ Has(done, "before")
        /\ done.refetched = "return") =>
        \E i \in DOMAIN people :
            /\ people[i].id = done.before.id
            /\ HasDate(people[i]) = HasDate(done.before)
            /\ HasDate(done.before) =>
                  people[i].lastDonationDate = done.before.lastDonationDate
            /\ IsEligible(people[i], now) = IsEligible(done.before, now)

\* C29: after the same calls, fetchGroups returns the same set of groups
\* from the local gateway and from the remote gateway, and no two of the
\* groups it returns have the same id.
C29_GatewaysAgree ==
    (done.h = "pair" /\ done.req.op = "fetchGroups") =>
        /\ Range(done.local.data) = Range(done.remote.data)
        /\ Cardinality(Ids(done.local.data)) = Len(done.local.data)
        /\ Cardinality(Ids(done.remote.data)) = Len(done.remote.data)

\* a group name that is empty or whitespace only
Blank(str) == str \in {"", " "}

\* C30: a step in which handleSavePerson or handleSaveGroup rejects its
\* form leaves the stores, the collections and the calls in flight as they
\* were; and no donor with an empty name or phone number, and no group with
\* a blank name, is ever handed to the gateway or stored.
C30_ValidationRejects ==
    [][/\ done'.h = "rejected" =>
             UNCHANGED <<stores, people, groups, loading, tasks>>
       /\ \A i \in DOMAIN tasks' :
             /\ tasks'[i].op = "savePerson" =>
                   tasks'[i].person.name # "" /\ tasks'[i].person.phoneNumber # ""
             /\ tasks'[i].op = "saveGroup" => ~Blank(tasks'[i].group.name)
       /\ \A i \in DOMAIN localPeople' :
             localPeople'[i].name # "" /\ localPeople'[i].phoneNumber # ""
       /\ \A i \in DOMAIN remotePeople' :
             remotePeople'[i].name # "" /\ remotePeople'[i].phone_number # ""
       /\ \A i \in DOMAIN localGroups' : ~Blank(localGroups'[i].name)
       /\ \A i \in DOMAIN remoteGroups' : ~Blank(remoteGroups'[i].name)]_vars

\* a group form is rejected in an App that holds a donor
C30_Witness ==
    /\ done.h = "rejected" /\ done.of = "saveGroup"
    /\ people # <<>>

====
